---------------------------- MODULE Spec2Model ----------------------------
(***************************************************************************)
(* A model of PINA's graph construction (src/pina/graph.py: Graph,         *)
(* RadiusGraph, KNNGraph, TemporalGraph) and of the physics-informed       *)
(* solver's step orchestration (src/pina/solvers/pinns/basepinn.py:        *)
(* PINNInterface).                                                         *)
(*                                                                         *)
(* Python values are records tagged by "kind":                             *)
(*   tensor  a torch.Tensor (or LabelTensor, labeled = TRUE); "name" and   *)
(*           "idx" identify its content (idx is the path of 0-based        *)
(*           indices taken from the named tensor), "shape" is its shape,   *)
(*           "und" says that to_undirected was applied to it;              *)
(*   list    a Python list, tuple a Python tuple (items: 1-based sequence);*)
(*   none    None;  dict a Python dict (map: a function on its keys);      *)
(*   function / object   a plain function / any other Python object.       *)
(* Exceptions are strings, "" meaning that nothing was raised.             *)
(***************************************************************************)
EXTENDS Integers, Sequences, FiniteSets

VARIABLES
    op,                 \* the last operation performed ("init" at the start)
    args,               \* the arguments of that operation
    data,               \* Graph.data: the list of graph records
    error,              \* the exception the operation raised, "" when none
    ret,                \* what the operation computed on the way
    problem,            \* the solver's problem: inverse or not, the ranges
    params,             \* PINNInterface._params: unknown parameter values
    logged_res_losses,  \* PINNInterface.__logged_res_losses
    logged_metric,      \* PINNInterface.__logged_metric
    logs,               \* the logging sink: what the last operation logged
    batch,              \* the batch of the last training/validation step
    step_ret            \* the value the last step returned

gvars == <<op, args, data, error, ret>>
pvars == <<problem, params, logged_res_losses, logged_metric, logs, batch,
           step_ret>>
vars == <<op, args, data, error, ret, problem, params, logged_res_losses,
          logged_metric, logs, batch, step_ret>>

(***************************************************************************)
(* Bounds of the model.                                                    *)
(***************************************************************************)
\* the longest list / leading tensor dimension drawn as an input
MaxLen == 3

\* the most points of a point set
MaxPts == 3

\* the largest coordinate of a point
MaxCoord == 1

\* the largest radius
MaxRadius == 2

\* the largest loss a condition contributes
MaxLoss == 2

\* the largest value of an unknown parameter
MaxParam == 3

\* the most residual losses stored before they are released
MaxLogged == 2

\* the most points of a position tensor given to RadiusGraph or KNNGraph
MaxCtorPts == 2

(***************************************************************************)
(* Python values.                                                          *)
(***************************************************************************)
NoneVal == [kind |-> "none"]

Tensor(name, shape) ==
    [kind |-> "tensor", name |-> name, idx |-> <<>>, shape |-> shape,
     labeled |-> FALSE, und |-> FALSE]

LabelTensor(name, shape) ==
    [kind |-> "tensor", name |-> name, idx |-> <<>>, shape |-> shape,
     labeled |-> TRUE, und |-> FALSE]

PyList(items) == [kind |-> "list", items |-> items]

PyTuple(items) == [kind |-> "tuple", items |-> items]

PyDict(map) == [kind |-> "dict", map |-> map]

\* isinstance(v, torch.Tensor); LabelTensor is a subclass of torch.Tensor
IsTensor(v) == v.kind = "tensor"

IsList(v) == v.kind = "list"

Ndim(t) == Len(t.shape)

\* t[i], i 0-based
Index(t, i) == [t EXCEPT !.idx = Append(@, i), !.shape = Tail(@)]

\* [t[i] for i in range(t.shape[0])]
Split(t) == [i \in 1..t.shape[1] |-> Index(t, i - 1)]

\* [v] * n
Replicate(v, n) == [i \in 1..n |-> v]

Min(a, b) == IF a <= b THEN a ELSE b

Max(a, b) == IF a >= b THEN a ELSE b

\* x_.tensor: the plain tensor view of a LabelTensor
PlainTensor(t) == [t EXCEPT !.labeled = FALSE]

\* torch_geometric.utils.to_undirected
to_undirected(e) == [e EXCEPT !.und = TRUE]

(***************************************************************************)
(* Iteration (iter(v), as zip and for do it): the items of a list or       *)
(* tuple, the slices along axis 0 of a tensor of at least one dimension.   *)
(***************************************************************************)
Iterable(v) ==
    \/ v.kind \in {"list", "tuple"}
    \/ IsTensor(v) /\ Ndim(v) >= 1

Items(v) == IF IsTensor(v) THEN Split(v) ELSE v.items

\* len(v), defined when Iterable(v)
PyLen(v) == Len(Items(v))


(***************************************************************************)
(* Exceptions.                                                             *)
(***************************************************************************)
NoError == ""

LenMismatch == "ValueError: x and pos must have the same length."

XPosTypeError == "TypeError: x and pos must be lists or tensors."

ParamsNotDict == "TypeError: additional_params must be a dictionary."

ParamsValueTypeError ==
    "TypeError: additional_params values must be tensors or lists of tensors."

EdgeAttrLenMismatch ==
    "ValueError: edge_attr must have the same length as x and pos."

TimeLenMismatch == "ValueError: pos and times must have the same length."

\* raised by the interpreter: iterating or taking len() of a value that has none
NotIterable == "TypeError: object is not iterable"

\* raised by the interpreter: v[i] past the end, or on a 0-d tensor
IndexError == "IndexError"

\* raised by torch: comparing a tensor with None (dist <= r, r = None)
CompareTypeError == "TypeError: '<=' not supported between Tensor and NoneType"

\* raised by torch.cdist on a tensor that is not at least 2-D
CdistError == "RuntimeError: cdist only supports at least 2D tensors"

(***************************************************************************)
(* Graph._check_input_consistency: a 3-D tensor is split into a list.      *)
(***************************************************************************)
Split3D(v) == IF IsTensor(v) /\ Ndim(v) = 3 THEN PyList(Split(v)) ELSE v

check_input_consistency(x, pos, edge_index) ==
    [x |-> Split3D(x), pos |-> Split3D(pos), edge_index |-> Split3D(edge_index)]

\* check_len_consistency without the comparison of the two lengths
check_len_consistency_unchecked(x, pos) ==
    IF IsList(x) /\ IsList(pos)
    THEN [error |-> NoError, val |-> Max(Len(x.items), Len(pos.items))]
    ELSE IF IsList(x) /\ ~IsList(pos)
    THEN [error |-> NoError, val |-> Len(x.items)]
    ELSE IF ~IsList(x) /\ IsList(pos)
    THEN [error |-> NoError, val |-> Len(pos.items)]
    ELSE [error |-> NoError, val |-> 1]

(***************************************************************************)
(* Graph._check_len_consistency: the number of graphs.                     *)
(***************************************************************************)
check_len_consistency(x, pos) ==
    IF IsList(x) /\ IsList(pos)
    THEN IF Len(x.items) # Len(pos.items)
         THEN [error |-> LenMismatch, val |-> 0]
         ELSE [error |-> NoError, val |-> Max(Len(x.items), Len(pos.items))]
    ELSE IF IsList(x) /\ ~IsList(pos)
    THEN [error |-> NoError, val |-> Len(x.items)]
    ELSE IF ~IsList(x) /\ IsList(pos)
    THEN [error |-> NoError, val |-> Len(pos.items)]
    ELSE [error |-> NoError, val |-> 1]

(***************************************************************************)
(* Graph._check_additional_params.                                         *)
(***************************************************************************)
\* ExpandParam with a 1-D tensor always replicated, never split
ExpandParamReplicate1D(val, data_len) ==
    IF IsTensor(val)
    THEN IF Ndim(val) = 3 THEN PyList(Split(val))
         ELSE IF Ndim(val) = 2 \/ Ndim(val) = 1
         THEN PyList(Replicate(val, data_len))
         ELSE val
    ELSE val

\* what the loop body leaves in additional_params[param] for a tensor or list
ExpandParam(val, data_len) ==
    IF IsTensor(val)
    THEN LET first == IF Ndim(val) = 3 THEN PyList(Split(val))
                      ELSE IF Ndim(val) = 2
                      THEN PyList(Replicate(val, data_len))
                      ELSE val
         IN IF Ndim(val) = 1
            THEN IF val.shape[1] = data_len
                 THEN PyList(Split(val))
                 ELSE PyList(Replicate(val, data_len))
            ELSE first
    ELSE val

check_additional_params(additional_params, data_len) ==
    IF additional_params.kind # "none"
    THEN IF additional_params.kind # "dict"
         THEN [error |-> ParamsNotDict, val |-> <<>>]
         ELSE LET m == additional_params.map
              IN IF \E k \in DOMAIN m : ~IsTensor(m[k]) /\ ~IsList(m[k])
                 THEN [error |-> ParamsValueTypeError, val |-> <<>>]
                 ELSE [error |-> NoError,
                       val |-> [k \in DOMAIN m |-> ExpandParam(m[k], data_len)]]
    ELSE [error |-> NoError, val |-> <<>>]

(***************************************************************************)
(* Graph._build_edge_attr (or the custom function installed in its place). *)
(* The edge attribute built is identified by the builder and the arguments *)
(* it was called with.  The default builder evaluates edge_index[0] and    *)
(* edge_index[1] (line 110), which raises on a list or tuple of fewer than *)
(* two items, on a tensor that has no second entry along axis 0, and on a  *)
(* value that cannot be indexed; a custom function only records its        *)
(* arguments.                                                              *)
(***************************************************************************)
\* raised by the interpreter: v[i] on a value that has no items (None)
NotSubscriptable == "TypeError: object is not subscriptable"

\* edge_index[0], edge_index[1]: the exception raised, "" when none
edge_index_rows_error(edge_index_) ==
    IF edge_index_.kind \in {"list", "tuple"}
    THEN IF Len(edge_index_.items) < 2 THEN IndexError ELSE NoError
    ELSE IF IsTensor(edge_index_)
    THEN IF Ndim(edge_index_) = 0 THEN IndexError
         ELSE IF edge_index_.shape[1] < 2 THEN IndexError ELSE NoError
    ELSE NotSubscriptable

build_edge_attr_call(fn, x, pos_, edge_index_) ==
    IF fn = "default" /\ edge_index_rows_error(edge_index_) # NoError
    THEN [error |-> edge_index_rows_error(edge_index_), val |-> NoneVal]
    ELSE [error |-> NoError,
          val |-> [kind |-> "built", fn |-> fn, x |-> x, pos |-> pos_,
                   edge_index |-> edge_index_]]

\* self._build_edge_attr after line 52-53: a plain function replaces the default
EdgeAttrBuilder(custom_build_edge_attr) ==
    IF custom_build_edge_attr.kind = "function" THEN "custom" ELSE "default"

(***************************************************************************)
(* Graph._check_and_build_edge_attr.  val is the returned list (kind list),*)
(* or None; warned says that the warning was emitted.  The builder is      *)
(* called pair by pair, so the first call that raises ends the method.     *)
(***************************************************************************)
check_and_build_edge_attr(fn, edge_attr, build_edge_attr, data_len, edge_index, pos, x) ==
    IF edge_attr.kind # "none"
    THEN IF IsList(edge_attr) /\ Len(edge_attr.items) # data_len
         THEN [error |-> EdgeAttrLenMismatch, val |-> NoneVal,
               warned |-> build_edge_attr]
         ELSE [error |-> NoError,
               val |-> PyList(Replicate(edge_attr, data_len)),
               warned |-> build_edge_attr]
    ELSE IF build_edge_attr
    THEN IF ~Iterable(pos) \/ ~Iterable(edge_index)
         THEN [error |-> NotIterable, val |-> NoneVal, warned |-> FALSE]
         ELSE LET n == Min(PyLen(pos), PyLen(edge_index))
                  calls == [i \in 1..n |->
                               build_edge_attr_call(fn, x, Items(pos)[i],
                                                    Items(edge_index)[i])]
                  bad == {i \in 1..n : calls[i].error # NoError}
              IN IF bad = {}
                 THEN [error |-> NoError,
                       val |-> PyList([i \in 1..n |-> calls[i].val]),
                       warned |-> FALSE]
                 ELSE [error |->
                          calls[CHOOSE i \in bad : \A j \in bad : i <= j].error,
                       val |-> NoneVal, warned |-> FALSE]
    ELSE [error |-> NoError, val |-> NoneVal, warned |-> FALSE]

(***************************************************************************)
(* Graph._build_graph_list: one Data record per element of                 *)
(* zip(x, pos, edge_index).  A record holds an edge_attr field only when   *)
(* edge attributes were resolved (has_edge_attr).                          *)
(***************************************************************************)
\* v[i] (i 0-based) is defined
CanIndex(v, i) == Iterable(v) /\ i < PyLen(v)

Data(x_, pos_, edge_index_, has_attr, attr, extra) ==
    [x |-> x_, pos |-> pos_, edge_index |-> edge_index_,
     has_edge_attr |-> has_attr, edge_attr |-> attr, extra |-> extra]

\* the record built at 0-based index i
GraphRecord(x, pos, edge_index, edge_attr, additional_params, i) ==
    LET x_ == Items(x)[i + 1]
    IN Data(IF IsTensor(x_) /\ x_.labeled THEN PlainTensor(x_) ELSE x_,
            Items(pos)[i + 1],
            Items(edge_index)[i + 1],
            edge_attr.kind # "none",
            IF edge_attr.kind # "none" THEN Items(edge_attr)[i + 1] ELSE NoneVal,
            [k \in DOMAIN additional_params |->
                Items(additional_params[k])[i + 1]])

\* the iteration at 0-based index i raises (v[i] of an additional parameter,
\* or edge_attr[i])
RecordFails(edge_attr, additional_params, i) ==
    \/ \E k \in DOMAIN additional_params : ~CanIndex(additional_params[k], i)
    \/ edge_attr.kind # "none" /\ ~CanIndex(edge_attr, i)

build_graph_list(x, pos, edge_index, edge_attr, additional_params) ==
    IF ~Iterable(x) \/ ~Iterable(pos) \/ ~Iterable(edge_index)
    THEN [error |-> NotIterable, data |-> <<>>]
    ELSE LET n == Min(PyLen(x), Min(PyLen(pos), PyLen(edge_index)))
             bad == {i \in 0..(n - 1) :
                        RecordFails(edge_attr, additional_params, i)}
             stop == IF bad = {} THEN n
                     ELSE CHOOSE i \in bad : \A j \in bad : i <= j
         IN [error |-> IF bad = {} THEN NoError ELSE IndexError,
             data |-> [i \in 1..stop |->
                          GraphRecord(x, pos, edge_index, edge_attr,
                                      additional_params, i - 1)]]

(***************************************************************************)
(* Graph.__init__, lines 59-84: undirected edges, then the replication of  *)
(* x, pos and edge_index to lists of data_len entries.                     *)
(***************************************************************************)
make_undirected(undirected, edge_index) ==
    IF ~undirected THEN edge_index
    ELSE IF IsList(edge_index)
    THEN PyList([i \in 1..Len(edge_index.items) |->
                    to_undirected(edge_index.items[i])])
    ELSE to_undirected(edge_index)

prepare_lists(x, pos, edge_index, data_len) ==
    IF IsList(x) /\ IsTensor(pos)
    THEN [error |-> NoError, x |-> x,
          pos |-> PyList(Replicate(pos, data_len)),
          edge_index |-> PyList(Replicate(edge_index, data_len))]
    ELSE IF IsTensor(x) /\ IsTensor(pos)
    THEN [error |-> NoError, x |-> PyList(<<x>>), pos |-> PyList(<<pos>>),
          edge_index |-> PyList(<<edge_index>>)]
    ELSE IF IsTensor(x) /\ IsList(pos)
    THEN [error |-> NoError, x |-> PyList(Replicate(x, data_len)),
          pos |-> pos, edge_index |-> edge_index]
    ELSE IF ~IsList(x) /\ ~IsList(pos)
    THEN [error |-> XPosTypeError, x |-> x, pos |-> pos,
          edge_index |-> edge_index]
    ELSE [error |-> NoError, x |-> x, pos |-> pos, edge_index |-> edge_index]

(***************************************************************************)
(* Graph.__init__.  The outcome: the exception raised (if any), self.data  *)
(* at that point, and the intermediate values; stage names the last step   *)
(* that completed.                                                         *)
(***************************************************************************)
GraphOutcome(err, stage, d, data_len, c, ap, ea, warned) ==
    [error |-> err, data |-> d,
     ret |-> [stage |-> stage, data_len |-> data_len, x |-> c.x,
              pos |-> c.pos, edge_index |-> c.edge_index,
              additional_params |-> ap, edge_attr |-> ea,
              warned |-> warned]]

GraphInit(a) ==
    LET c == check_input_consistency(a.x, a.pos, a.edge_index)
        l == check_len_consistency(c.x, c.pos)
        fn == EdgeAttrBuilder(a.custom_build_edge_attr)
        ap == check_additional_params(a.additional_params, l.val)
        e == make_undirected(a.undirected, c.edge_index)
        b == prepare_lists(c.x, c.pos, e, l.val)
        ea == check_and_build_edge_attr(fn, a.edge_attr, a.build_edge_attr,
                                        l.val, b.edge_index, b.pos, b.x)
        g == build_graph_list(b.x, b.pos, b.edge_index, ea.val, ap.val)
    IN IF l.error # NoError
       THEN GraphOutcome(l.error, "input", <<>>, 0, c, <<>>, NoneVal, FALSE)
       ELSE IF ap.error # NoError
       THEN GraphOutcome(ap.error, "len", <<>>, l.val, c, <<>>, NoneVal, FALSE)
       ELSE IF b.error # NoError
       THEN GraphOutcome(b.error, "params", <<>>, l.val, c, ap.val, NoneVal,
                         FALSE)
       ELSE IF ea.error # NoError
       THEN GraphOutcome(ea.error, "lists", <<>>, l.val, b, ap.val, NoneVal,
                         ea.warned)
       ELSE IF g.error # NoError
       THEN GraphOutcome(g.error, "edge_attr", g.data, l.val, b, ap.val,
                         ea.val, ea.warned)
       ELSE GraphOutcome(NoError, "done", g.data, l.val, b, ap.val, ea.val,
                         ea.warned)

(***************************************************************************)
(* Point sets.  A point is a tuple of integer coordinates, a point set     *)
(* (an N x D tensor) a sequence of points; nodes are numbered from 0.      *)
(* torch.cdist(points, points, p=2) is kept squared: Dist2 is the square   *)
(* of the Euclidean distance, which orders pairs as the distance does, and *)
(* for r >= 0, dist <= r iff Dist2 <= r * r.                               *)
(***************************************************************************)
Sq(a) == a * a

RECURSIVE SumSq(_, _, _)
SumSq(p, q, d) ==
    IF d = 0 THEN 0 ELSE Sq(p[d] - q[d]) + SumSq(p, q, d - 1)

Dist2(p, q) == SumSq(p, q, Len(p))

\* WithinRadius with dist < r in place of dist <= r
WithinRadiusStrict(p, q, r) == r >= 0 /\ Dist2(p, q) < Sq(r)

\* dist <= r, on the entry of the distance matrix for points p and q
WithinRadius(p, q, r) == r >= 0 /\ Dist2(p, q) <= Sq(r)

(***************************************************************************)
(* RadiusGraph._radius_graph: torch.nonzero(dist <= r).t(), the pairs      *)
(* (i, j) with dist[i, j] <= r in row-major order, as the two rows of the  *)
(* 2 x E edge index.                                                       *)
(***************************************************************************)
NonzeroWithin(points, r) ==
    LET n == Len(points)
        all == [m \in 1..(n * n) |-> <<(m - 1) \div n, (m - 1) % n>>]
        Keep(e) == WithinRadius(points[e[1] + 1], points[e[2] + 1], r)
    IN SelectSeq(all, Keep)

radius_graph(points, r) ==
    LET nz == NonzeroWithin(points, r)
    IN [row |-> [e \in 1..Len(nz) |-> nz[e][1]],
        col |-> [e \in 1..Len(nz) |-> nz[e][2]]]

(***************************************************************************)
(* KNNGraph._knn_graph.  torch.topk(dist, k + 1, largest=False) returns,   *)
(* for each row, k + 1 indices of smallest distance in nondecreasing order *)
(* of distance; among equal distances the order, and which of them are     *)
(* returned, is not specified: every such answer is possible.              *)
(***************************************************************************)
\* the sequences of m distinct nodes of 0..n-1
RECURSIVE DistinctSeqs(_, _)
DistinctSeqs(n, m) ==
    IF m = 0 THEN {<<>>}
    ELSE {Append(s, j) : s \in DistinctSeqs(n, m - 1), j \in 0..(n - 1)}
         \ {Append(s, s[i]) : s \in DistinctSeqs(n, m - 1), i \in 1..(m - 1)}

SeqRange(s) == {s[i] : i \in 1..Len(s)}

\* the possible values of topk(...).indices for row i
TopkSmallest(points, i, m) ==
    LET n == Len(points)
        d(j) == Dist2(points[i + 1], points[j + 1])
    IN {s \in DistinctSeqs(n, m) :
           /\ \A a \in 1..(m - 1) : d(s[a]) <= d(s[a + 1])
           /\ \A j \in (0..(n - 1)) \ SeqRange(s) :
                 \A a \in 1..m : d(s[a]) <= d(j)}

\* the possible values of knn_indices = topk(...).indices[:, 1:]: a sequence
\* holding, for each of the first m points in turn, its sequence of k nodes
RECURSIVE KnnIndices(_, _, _)
KnnIndices(points, k, m) ==
    IF m = 0 THEN {<<>>}
    ELSE {Append(f, Tail(s)) :
             f \in KnnIndices(points, k, m - 1),
             s \in TopkSmallest(points, m - 1, k + 1)}

\* the edge index built from knn_indices: row = arange(N).repeat_interleave(k),
\* col = knn_indices.flatten()
knn_edge_index(n, k, knn_indices) ==
    [row |-> [e \in 1..(n * k) |-> (e - 1) \div k],
     col |-> [e \in 1..(n * k) |->
                 knn_indices[((e - 1) \div k) + 1][((e - 1) % k) + 1]]]

\* the possible results of _knn_graph(points, k); topk raises when k + 1 > N
TopkRangeError == "RuntimeError: selected index k out of range"

knn_graph(points, k) ==
    IF k + 1 > Len(points)
    THEN {[error |-> TopkRangeError, val |-> NoneVal]}
    ELSE {[error |-> NoError, val |-> knn_edge_index(Len(points), k, f)] :
             f \in KnnIndices(points, k, Len(points))}

(***************************************************************************)
(* TemporalGraph.__init__.  A radius is None or a number ([kind |->        *)
(* "float", val |-> r]).  The positions held by a 2-D pos tensor are its   *)
(* shape[0] nodes at coordinates (j, ..., j), j = 0, 1, ...                *)
(***************************************************************************)
Float(v) == [kind |-> "float", val |-> v]

PosPoints(p) == [j \in 1..p.shape[1] |-> [d \in 1..p.shape[2] |-> j - 1]]

\* RadiusGraph._radius_graph(p, r) on a tensor: cdist raises unless p has at
\* least two dimensions, then dist <= r raises when r is None
radius_graph_tensor(p, r) ==
    IF ~(IsTensor(p) /\ Ndim(p) >= 2)
    THEN [error |-> CdistError, val |-> NoneVal]
    ELSE IF r.kind = "none"
    THEN [error |-> CompareTypeError, val |-> NoneVal]
    ELSE [error |-> NoError,
          val |-> [kind |-> "tensor", name |-> "radius_graph",
                   idx |-> p.idx,
                   shape |-> <<2, Len(radius_graph(PosPoints(p), r.val).row)>>,
                   labeled |-> FALSE, und |-> FALSE, r |-> r.val]]

\* [RadiusGraph._radius_graph(p, r) for p in pos]
radius_graph_list(pos, r) ==
    LET each == [i \in 1..PyLen(pos) |-> radius_graph_tensor(Items(pos)[i], r)]
        bad == {i \in 1..PyLen(pos) : each[i].error # NoError}
    IN IF bad = {}
       THEN [error |-> NoError,
             val |-> PyList([i \in 1..PyLen(pos) |-> each[i].val])]
       ELSE [error |-> each[CHOOSE i \in bad : \A j \in bad : i <= j].error,
             val |-> NoneVal]

\* TemporalGraph._check_time_consistency; len(times) raises on a value that
\* has no length
NoLen == "TypeError: object has no len()"

check_time_consistency(pos, times) ==
    IF ~Iterable(times) THEN NoLen
    ELSE IF PyLen(pos) # PyLen(times) THEN TimeLenMismatch
    ELSE NoError

TemporalOutcome(err, d, base_called, edge_index, base) ==
    [error |-> err, data |-> d,
     ret |-> [base_called |-> base_called, edge_index |-> edge_index,
              base |-> base]]

TemporalGraphInit(a) ==
    LET c == check_input_consistency(a.x, a.pos, a.edge_index)
        built == IF c.edge_index.kind = "none"
                 THEN radius_graph_list(c.pos, a.r)
                 ELSE [error |-> NoError, val |-> c.edge_index]
        tc == check_time_consistency(c.pos, a.t)
        g == GraphInit([x |-> c.x, pos |-> c.pos, edge_index |-> built.val,
                        edge_attr |-> a.edge_attr,
                        build_edge_attr |-> a.build_edge_attr,
                        undirected |-> a.undirected,
                        custom_build_edge_attr |-> NoneVal,
                        additional_params |-> PyDict([k \in {"t"} |-> a.t])])
    IN IF ~Iterable(c.pos)
       THEN TemporalOutcome(NoLen, <<>>, FALSE, NoneVal, NoneVal)
       ELSE IF built.error # NoError
       THEN TemporalOutcome(built.error, <<>>, FALSE, NoneVal, NoneVal)
       ELSE IF tc # NoError
       THEN TemporalOutcome(tc, <<>>, FALSE, built.val, NoneVal)
       ELSE TemporalOutcome(g.error, g.data, TRUE, built.val, g.ret)

(***************************************************************************)
(* RadiusGraph.__init__ and KNNGraph.__init__.  A position tensor given to *)
(* them is an N x 2 tensor that carries its points; the edge index they    *)
(* build is a 2 x E tensor that carries its two rows.                      *)
(***************************************************************************)
PointTensor(points) ==
    [kind |-> "tensor", name |-> "pos", idx |-> <<>>,
     shape |-> <<Len(points), 2>>, labeled |-> FALSE, und |-> FALSE,
     points |-> points]

EdgeIndexTensor(e) ==
    [kind |-> "tensor", name |-> "edge_index", idx |-> <<>>,
     shape |-> <<2, Len(e.row)>>, labeled |-> FALSE, und |-> FALSE,
     row |-> e.row, col |-> e.col]

\* RadiusGraph._radius_graph(p, r) on a position tensor: dist <= r raises
\* when r is None
radius_graph_points(p, r) ==
    IF ~(IsTensor(p) /\ Ndim(p) >= 2)
    THEN [error |-> CdistError, val |-> NoneVal]
    ELSE IF r.kind = "none"
    THEN [error |-> CompareTypeError, val |-> NoneVal]
    ELSE [error |-> NoError,
          val |-> EdgeIndexTensor(radius_graph(p.points, r.val))]

\* the edge index of lines 202-205: one tensor for a tensor pos, else the
\* list of the tensors of the items of pos; the first failure ends it
radius_edge_index(pos, r) ==
    IF IsTensor(pos) THEN radius_graph_points(pos, r)
    ELSE IF ~Iterable(pos) THEN [error |-> NotIterable, val |-> NoneVal]
    ELSE LET each == [i \in 1..PyLen(pos) |->
                         radius_graph_points(Items(pos)[i], r)]
             bad == {i \in 1..PyLen(pos) : each[i].error # NoError}
         IN IF bad = {}
            THEN [error |-> NoError,
                  val |-> PyList([i \in 1..PyLen(pos) |-> each[i].val])]
            ELSE [error |-> each[CHOOSE i \in bad : \A j \in bad : i <= j].error,
                  val |-> NoneVal]

\* the call of Graph.__init__ that ends both constructors (lines 207, 239);
\* the keyword arguments not given keep the defaults of Graph.__init__
SuperInit(x, pos, edge_index, build_edge_attr) ==
    GraphInit([x |-> x, pos |-> pos, edge_index |-> edge_index,
               edge_attr |-> NoneVal, build_edge_attr |-> build_edge_attr,
               undirected |-> FALSE, custom_build_edge_attr |-> NoneVal,
               additional_params |-> NoneVal])

RadiusGraphInit(a) ==
    LET c == check_input_consistency(a.x, a.pos, NoneVal)
        built == radius_edge_index(c.pos, a.r)
        g == SuperInit(c.x, c.pos, built.val, a.build_edge_attr)
    IN IF built.error # NoError
       THEN TemporalOutcome(built.error, <<>>, FALSE, NoneVal, NoneVal)
       ELSE TemporalOutcome(g.error, g.data, TRUE, built.val, g.ret)

\* the possible results of KNNGraph._knn_graph(p, k) on a position tensor
knn_graph_points(p, k) ==
    IF ~(IsTensor(p) /\ Ndim(p) >= 2)
    THEN {[error |-> CdistError, val |-> NoneVal]}
    ELSE {[error |-> o.error,
           val |-> IF o.error = NoError THEN EdgeIndexTensor(o.val)
                   ELSE NoneVal] :
             o \in knn_graph(p.points, k)}

\* the possible results of [KNNGraph._knn_graph(p, k) for p in pos]: val is
\* the sequence of the tensors; the first failure ends it
RECURSIVE knn_graph_items(_, _)
knn_graph_items(items, k) ==
    IF items = <<>> THEN {[error |-> NoError, val |-> <<>>]}
    ELSE {IF h.error # NoError THEN [error |-> h.error, val |-> <<>>]
          ELSE IF t.error # NoError THEN [error |-> t.error, val |-> <<>>]
          ELSE [error |-> NoError, val |-> <<h.val>> \o t.val] :
             h \in knn_graph_points(Head(items), k),
             t \in knn_graph_items(Tail(items), k)}

\* the possible edge indices of lines 235-238
knn_edge_index_of(pos, k) ==
    IF IsTensor(pos) THEN knn_graph_points(pos, k)
    ELSE IF ~Iterable(pos) THEN {[error |-> NotIterable, val |-> NoneVal]}
    ELSE {[error |-> o.error,
           val |-> IF o.error = NoError THEN PyList(o.val) ELSE NoneVal] :
             o \in knn_graph_items(Items(pos), k)}

\* the possible outcomes of KNNGraph(x, pos, k, build_edge_attr=...)
KNNGraphInit(a) ==
    LET c == check_input_consistency(a.x, a.pos, NoneVal)
    IN {IF built.error # NoError
        THEN TemporalOutcome(built.error, <<>>, FALSE, NoneVal, NoneVal)
        ELSE LET g == SuperInit(c.x, c.pos, built.val, a.build_edge_attr)
             IN TemporalOutcome(g.error, g.data, TRUE, built.val, g.ret) :
           built \in knn_edge_index_of(c.pos, a.k)}

(***************************************************************************)
(* PINNInterface.  Losses are numbers; a logged value is a fraction        *)
(* [num, den] so that the mean of the stored losses is exact.  The losses  *)
(* loss_data and loss_phys compute (the forward pass, the loss function    *)
(* and the equation are the solver's collaborators) are given with the     *)
(* batch: an entry of the batch is [name, has_output, loss], has_output    *)
(* saying that 'output_points' is in the entry's points.                   *)
(***************************************************************************)
Rat(n, d) == [num |-> n, den |-> d]

Str(v) == [kind |-> "str", val |-> v]

RECURSIVE SumSeq(_)
SumSeq(q) == IF q = <<>> THEN 0 ELSE Head(q) + SumSeq(Tail(q))

\* clamp that applies the lower bound only
clamp_min_only(v, lo, hi) == Max(v, lo)

\* torch.Tensor.clamp_(min, max): min(max(v, lo), hi)
clamp(v, lo, hi) == Min(Max(v, lo), hi)

\* PINNInterface._clamp_inverse_problem_params
clamp_inverse_problem_params(pr, ps) ==
    [v \in DOMAIN ps |-> clamp(ps[v], pr.range_[v][1], pr.range_[v][2])]

\* self._clamp_params(), set in __init__ (lines 79-84): the clamp for an
\* inverse problem, lambda: None otherwise
clamp_params(pr, ps) ==
    IF pr.inverse THEN clamp_inverse_problem_params(pr, ps) ELSE ps

\* the list condition_loss after the loop of training_step/validation_step
RECURSIVE condition_loss(_)
condition_loss(b) ==
    IF b = <<>> THEN <<>>
    ELSE <<Head(b).loss, Head(b).loss>> \o condition_loss(Tail(b))

\* loss = sum(condition_loss)
step_loss(b) == SumSeq(condition_loss(b))

LogEntry(key, value) == [key |-> key, value |-> value]

\* store_log(loss_value): self.__logged_metric + "_loss" raises when the
\* metric is None; otherwise the value is logged and appended
MetricTypeError == "TypeError: unsupported operand type(s) for +"

store_log(metric, acc, value) ==
    IF metric.kind = "none"
    THEN [error |-> MetricTypeError, logs |-> <<>>, acc |-> acc]
    ELSE [error |-> NoError,
          logs |-> <<LogEntry(metric.val \o "_loss", value)>>,
          acc |-> Append(acc, value)]

\* sum(self.__logged_res_losses) / len(self.__logged_res_losses)
RECURSIVE Gcd(_, _)
Gcd(a, b) == IF b = 0 THEN a ELSE Gcd(b, a % b)

RatNorm(n, d) == Rat(n \div Gcd(n, d), d \div Gcd(n, d))

RECURSIVE SumRat(_)
SumRat(q) ==
    IF q = <<>> THEN Rat(0, 1)
    ELSE LET h == Head(q)
             t == SumRat(Tail(q))
         IN RatNorm(h.num * t.den + t.num * h.den, h.den * t.den)

Mean(q) == LET t == SumRat(q) IN RatNorm(t.num, t.den * Len(q))

\* save_logs_and_release
save_logs_and_release(metric, acc) ==
    IF acc # <<>>
    THEN LET st == store_log(Str("mean"), acc, Mean(acc))
         IN [metric |-> Str("mean"), logs |-> st.logs, acc |-> <<>>]
    ELSE [metric |-> metric, logs |-> <<>>, acc |-> acc]

(***************************************************************************)
(* PINNInterface.compute_residual.  The equation and the model are the     *)
(* solver's collaborators: an equation is given by the number of arguments *)
(* its residual takes (arity) and by what its body does when it runs       *)
(* (body: "ok", or the exception it raises); the forward pass by what it   *)
(* does (fwd: "ok", or the exception it raises).                           *)
(***************************************************************************)
\* raised by the interpreter when residual is called with the wrong number
\* of arguments; the body does not run
ArityError == "TypeError: residual() takes a different number of arguments"

BodyTypeError == "TypeError: raised inside residual"

BodyValueError == "ValueError: raised inside residual"

ForwardTypeError == "TypeError: raised inside forward"

ForwardRuntimeError == "RuntimeError: raised inside forward"

\* isinstance(e, TypeError): what the except clause of line 208-210 catches
IsTypeError(e) == e \in {ArityError, BodyTypeError, ForwardTypeError}

\* self.forward(samples)
forward(fwd) ==
    IF fwd = "ok" THEN NoError
    ELSE IF fwd = "TypeError" THEN ForwardTypeError
    ELSE ForwardRuntimeError

\* equation.residual(samples, output) when ps is "absent",
\* equation.residual(samples, output, ps) otherwise
residual(equation, nargs, ps) ==
    IF equation.arity # nargs
    THEN [error |-> ArityError, val |-> NoneVal]
    ELSE IF equation.body = "TypeError"
    THEN [error |-> BodyTypeError, val |-> NoneVal]
    ELSE IF equation.body = "ValueError"
    THEN [error |-> BodyValueError, val |-> NoneVal]
    ELSE [error |-> NoError,
          val |-> [kind |-> "residual", nargs |-> nargs, params |-> ps]]

\* one evaluation of equation.residual(samples, self.forward(samples) ...):
\* the argument self.forward(samples) is evaluated before residual is called
residual_of_forward(equation, fwd, nargs, ps) ==
    IF forward(fwd) # NoError
    THEN [error |-> forward(fwd), val |-> NoneVal, called |-> 0]
    ELSE [error |-> residual(equation, nargs, ps).error,
          val |-> residual(equation, nargs, ps).val, called |-> 1]

\* compute_residual(samples, equation): first_error is what the statement in
\* the try block raised, residual_calls and forward_calls count the calls made
compute_residual(equation, fwd, ps) ==
    LET first == residual_of_forward(equation, fwd, 2, "absent")
        second == residual_of_forward(equation, fwd, 3, ps)
    IN IF IsTypeError(first.error)
       THEN [error |-> second.error, val |-> second.val,
             first_error |-> first.error,
             residual_calls |-> first.called + second.called,
             forward_calls |-> 2]
       ELSE [error |-> first.error, val |-> first.val,
             first_error |-> first.error,
             residual_calls |-> first.called,
             forward_calls |-> 1]

(***************************************************************************)
(* The arguments the constructors are called with.                         *)
(***************************************************************************)
\* a list of n 2-D tensors, the slices of a 3-D tensor of that name
TensorList(name, n) == PyList(Split(Tensor(name, <<n, 2, 1>>)))

XVals ==
    {Tensor("x", <<2, 1>>), LabelTensor("x", <<2, 1>>)}
    \cup {Tensor("x", <<n, 2, 1>>) : n \in 1..MaxLen}
    \cup {TensorList("x", n) : n \in 0..MaxLen}

PosVals ==
    {Tensor("pos", <<2, 1>>)}
    \cup {Tensor("pos", <<n, 2, 1>>) : n \in 1..MaxLen}
    \cup {TensorList("pos", n) : n \in 0..MaxLen}

\* values that are neither a list nor a tensor: tuples of tensors, None
OtherVals(name) ==
    {PyTuple(TensorList(name, n).items) : n \in 1..MaxLen} \cup {NoneVal}

\* the accepted forms of edge_index: a 2 x E tensor, a 3-D tensor, a list
EdgeIndexVals ==
    {Tensor("edge_index", <<2, 2>>)}
    \cup {Tensor("edge_index", <<n, 2, 2>>) : n \in 1..MaxLen}
    \cup {PyList(Split(Tensor("edge_index", <<n, 2, 2>>))) : n \in 0..MaxLen}

EdgeAttrVals ==
    {NoneVal, Tensor("edge_attr", <<2, 1>>)}
    \cup {TensorList("edge_attr", n) : n \in 0..MaxLen}

CustomVals == {NoneVal, [kind |-> "function"], [kind |-> "object"]}

\* the values of an additional parameter: tensors of 0 to 4 dimensions,
\* lists, and a value that is neither (a float)
ParamVals ==
    {Tensor("t", <<>>), Tensor("t", <<2, 1>>), Tensor("t", <<1, 1, 2, 1>>),
     [kind |-> "object"]}
    \cup {Tensor("t", <<n>>) : n \in 1..MaxLen}
    \cup {Tensor("t", <<n, 2, 1>>) : n \in 1..MaxLen}
    \cup {TensorList("t", n) : n \in 0..MaxLen}

AdditionalParamsVals ==
    {NoneVal, PyList(<<>>)}
    \cup {PyDict([k \in {"t"} |-> v]) : v \in ParamVals}

GraphArgs ==
    [x : XVals \cup OtherVals("x"), pos : PosVals \cup OtherVals("pos"),
     edge_index : EdgeIndexVals, edge_attr : EdgeAttrVals,
     build_edge_attr : BOOLEAN, undirected : {FALSE},
     custom_build_edge_attr : {NoneVal}, additional_params : {NoneVal}]
    \cup
    [x : XVals, pos : PosVals,
     edge_index : {Tensor("edge_index", <<2, 2>>),
                   PyList(Split(Tensor("edge_index", <<MaxLen, 2, 2>>)))},
     edge_attr : {NoneVal},
     build_edge_attr : BOOLEAN, undirected : BOOLEAN,
     custom_build_edge_attr : CustomVals,
     additional_params : AdditionalParamsVals]

\* the point sets: up to MaxPts points of the plane with coordinates
\* 0..MaxCoord
PointSets ==
    UNION {[1..n -> [1..2 -> 0..MaxCoord]] : n \in 0..MaxPts}

RadiusVals == (-1)..MaxRadius

(***************************************************************************)
(* The initial state: nothing constructed yet; a solver just constructed.  *)
(***************************************************************************)
GInit ==
    /\ op = "init"
    /\ args = NoneVal
    /\ data = <<>>
    /\ error = NoError
    /\ ret = NoneVal

PIdle ==
    /\ problem = NoneVal
    /\ params = <<>>
    /\ logged_res_losses = <<>>
    /\ logged_metric = NoneVal
    /\ logs = <<>>
    /\ batch = <<>>
    /\ step_ret = NoneVal

(***************************************************************************)
(* Graph(x, pos, edge_index, ...): one object is constructed per run.      *)
(***************************************************************************)
Graph ==
    /\ op = "init"
    /\ \E a \in GraphArgs :
          LET o == GraphInit(a)
          IN /\ op' = "Graph"
             /\ args' = a
             /\ data' = o.data
             /\ error' = o.error
             /\ ret' = o.ret
    /\ UNCHANGED pvars

(***************************************************************************)
(* TemporalGraph(x, pos, t, edge_index, edge_attr, build_edge_attr,        *)
(* undirected, r).                                                         *)
(***************************************************************************)
TimeVals ==
    {Tensor("t", <<>>), [kind |-> "object"]}
    \cup {Tensor("t", <<n>>) : n \in 1..MaxLen}
    \cup {PyList(Split(Tensor("t", <<n>>))) : n \in 0..MaxLen}

TemporalArgs ==
    [x : {Tensor("x", <<2, 1>>)} \cup {TensorList("x", n) : n \in 0..MaxLen},
     pos : PosVals, t : TimeVals,
     edge_index : {NoneVal, Tensor("edge_index", <<2, 2>>),
                   PyList(Split(Tensor("edge_index", <<MaxLen, 2, 2>>)))},
     edge_attr : {NoneVal}, build_edge_attr : BOOLEAN, undirected : BOOLEAN,
     r : {NoneVal} \cup {Float(v) : v \in 0..MaxRadius}]

TemporalGraph ==
    /\ op = "init"
    /\ \E a \in TemporalArgs :
          LET o == TemporalGraphInit(a)
          IN /\ op' = "TemporalGraph"
             /\ args' = a
             /\ data' = o.data
             /\ error' = o.error
             /\ ret' = o.ret
    /\ UNCHANGED pvars

(***************************************************************************)
(* RadiusGraph._radius_graph(points, r), called on its own.                *)
(***************************************************************************)
RadiusGraphFn ==
    /\ op = "init"
    /\ \E points \in PointSets, r \in RadiusVals :
          /\ op' = "_radius_graph"
          /\ args' = [points |-> points, r |-> r]
          /\ ret' = radius_graph(points, r)
    /\ data' = <<>>
    /\ error' = NoError
    /\ UNCHANGED pvars

(***************************************************************************)
(* KNNGraph._knn_graph(points, k), called on its own.                      *)
(***************************************************************************)
KnnGraphFn ==
    /\ op = "init"
    /\ \E points \in PointSets \ {<<>>}, k \in 0..MaxPts :
          \E o \in knn_graph(points, k) :
              /\ op' = "_knn_graph"
              /\ args' = [points |-> points, k |-> k]
              /\ ret' = o.val
              /\ error' = o.error
    /\ data' = <<>>
    /\ UNCHANGED pvars

(***************************************************************************)
(* RadiusGraph(x, pos, r, build_edge_attr=...) and                         *)
(* KNNGraph(x, pos, k, build_edge_attr=...).  The positions are up to      *)
(* MaxCtorPts points of the line y = 0, given as one tensor, as a list of  *)
(* one tensor, or as a list of that tensor and the tensor of two points.   *)
(***************************************************************************)
CtorPointSets ==
    {P \in PointSets : Len(P) <= MaxCtorPts /\ \A i \in 1..Len(P) : P[i][2] = 0}

TwoPoints == <<<<0, 0>>, <<1, 0>>>>

CtorPosVals ==
    {PointTensor(P) : P \in CtorPointSets}
    \cup {PyList(<<PointTensor(P)>>) : P \in CtorPointSets}
    \cup {PyList(<<PointTensor(P), PointTensor(TwoPoints)>>) :
              P \in CtorPointSets}
    \cup {PyList(<<>>), NoneVal}

CtorXVals ==
    {Tensor("x", <<2, 1>>), TensorList("x", 1), TensorList("x", 2), NoneVal}

RadiusGraphArgs ==
    [x : CtorXVals, pos : CtorPosVals,
     r : {NoneVal} \cup {Float(v) : v \in 0..MaxRadius},
     build_edge_attr : BOOLEAN]

KNNGraphArgs ==
    [x : CtorXVals, pos : CtorPosVals, k : 0..MaxCtorPts,
     build_edge_attr : BOOLEAN]

RadiusGraph ==
    /\ op = "init"
    /\ \E a \in RadiusGraphArgs :
          LET o == RadiusGraphInit(a)
          IN /\ op' = "RadiusGraph"
             /\ args' = a
             /\ data' = o.data
             /\ error' = o.error
             /\ ret' = o.ret
    /\ UNCHANGED pvars

KNNGraph ==
    /\ op = "init"
    /\ \E a \in KNNGraphArgs :
          \E o \in KNNGraphInit(a) :
              /\ op' = "KNNGraph"
              /\ args' = a
              /\ data' = o.data
              /\ error' = o.error
              /\ ret' = o.ret
    /\ UNCHANGED pvars

(***************************************************************************)
(* Graph._check_additional_params(additional_params, data_len), called on  *)
(* its own.                                                                *)
(***************************************************************************)
ParamDicts ==
    {NoneVal, PyList(<<>>)}
    \cup {PyDict([k \in {"t"} |-> v]) : v \in ParamVals}
    \cup {PyDict([k \in {"t", "w"} |-> IF k = "t" THEN v ELSE w]) :
             v \in ParamVals, w \in ParamVals}

CheckAdditionalParams ==
    /\ op = "init"
    /\ \E ap \in ParamDicts, n \in 0..MaxLen :
          LET o == check_additional_params(ap, n)
          IN /\ op' = "_check_additional_params"
             /\ args' = [additional_params |-> ap, data_len |-> n]
             /\ ret' = o.val
             /\ error' = o.error
    /\ data' = <<>>
    /\ UNCHANGED pvars

(***************************************************************************)
(* The solver.  The problem is fixed at construction: a forward problem,   *)
(* or an inverse problem with unknown parameters mu and nu; the batches    *)
(* hold the problem's conditions, each at most once.                       *)
(***************************************************************************)
ForwardProblem == [inverse |-> FALSE, range_ |-> <<>>]

InverseProblem ==
    [inverse |-> TRUE,
     range_ |-> [v \in {"mu", "nu"} |->
                    IF v = "mu" THEN <<1, 2>> ELSE <<0, MaxParam - 1>>]]

InRange(pr, ps) ==
    \A v \in DOMAIN ps : pr.range_[v][1] <= ps[v] /\ ps[v] <= pr.range_[v][2]

ParamValues == [{"mu", "nu"} -> 0..MaxParam]

Conditions == {"data", "phys"}

Batches ==
    {b \in UNION {[1..n -> [name : Conditions, has_output : BOOLEAN,
                            loss : 0..MaxLoss]] : n \in 0..2} :
        /\ \A i \in DOMAIN b : b[i].has_output = (b[i].name = "data")
        /\ \A i, j \in DOMAIN b : i # j => b[i].name # b[j].name}

LoggedValues == {Rat(1, 1), Rat(2, 1)}

\* PINNInterface.__init__, lines 78-94: the unknown parameters are those of
\* the problem, whatever their values
PInit ==
    /\ problem \in {ForwardProblem, InverseProblem}
    /\ params \in IF problem.inverse THEN ParamValues ELSE {NoneVal}
    /\ logged_res_losses = <<>>
    /\ logged_metric = NoneVal
    /\ logs = <<>>
    /\ batch = <<>>
    /\ step_ret = NoneVal

\* TrainingStep with the metric name set to the condition being processed
TrainingStepNamesCondition ==
    /\ \E b \in Batches :
          /\ batch' = b
          /\ logs' = <<LogEntry("train_loss", Rat(step_loss(b), 1))>>
          /\ step_ret' = Rat(step_loss(b), 1)
          /\ logged_metric' = IF b = <<>> THEN logged_metric
                              ELSE Str(b[Len(b)].name)
    /\ params' = clamp_params(problem, params)
    /\ op' = "training_step"
    /\ error' = NoError
    /\ UNCHANGED <<args, data, ret, problem, logged_res_losses>>

TrainingStep ==
    /\ \E b \in Batches :
          /\ batch' = b
          /\ logs' = <<LogEntry("train_loss", Rat(step_loss(b), 1))>>
          /\ step_ret' = Rat(step_loss(b), 1)
    /\ params' = clamp_params(problem, params)
    /\ op' = "training_step"
    /\ error' = NoError
    /\ UNCHANGED <<args, data, ret, problem, logged_res_losses, logged_metric>>

\* ValidationStep with the clamp of the unknown parameters before the sum
ValidationStepClamps ==
    /\ \E b \in Batches :
          /\ batch' = b
          /\ logs' = <<LogEntry("val_loss", Rat(step_loss(b), 1))>>
    /\ params' = clamp_params(problem, params)
    /\ step_ret' = NoneVal
    /\ op' = "validation_step"
    /\ error' = NoError
    /\ UNCHANGED <<args, data, ret, problem, logged_res_losses, logged_metric>>

ValidationStep ==
    /\ \E b \in Batches :
          /\ batch' = b
          /\ logs' = <<LogEntry("val_loss", Rat(step_loss(b), 1))>>
    /\ step_ret' = NoneVal
    /\ op' = "validation_step"
    /\ error' = NoError
    /\ UNCHANGED <<args, data, ret, problem, params, logged_res_losses,
                   logged_metric>>

\* the trainer's optimizer step moves the unknown parameters
OptimizerStep ==
    /\ problem.inverse
    /\ params' \in ParamValues
    /\ op' = "optimizer_step"
    /\ error' = NoError
    /\ logs' = <<>>
    /\ UNCHANGED <<args, data, ret, problem, logged_res_losses, logged_metric,
                   batch, step_ret>>

StoreLog ==
    /\ Len(logged_res_losses) < MaxLogged
    /\ \E v \in LoggedValues :
          LET st == store_log(logged_metric, logged_res_losses, v)
          IN /\ error' = st.error
             /\ logs' = st.logs
             /\ logged_res_losses' = st.acc
             /\ args' = [loss_value |-> v]
    /\ op' = "store_log"
    /\ UNCHANGED <<data, ret, problem, params, logged_metric, batch, step_ret>>

SaveLogsAndRelease ==
    /\ LET sv == save_logs_and_release(logged_metric, logged_res_losses)
       IN /\ logged_metric' = sv.metric
          /\ logs' = sv.logs
          /\ logged_res_losses' = sv.acc
    /\ op' = "save_logs_and_release"
    /\ error' = NoError
    /\ UNCHANGED <<args, data, ret, problem, params, batch, step_ret>>

Init == GInit /\ PIdle

Next ==
    \/ Graph
    \/ TemporalGraph
    \/ RadiusGraph
    \/ RadiusGraphFn
    \/ CheckAdditionalParams

Spec == Init /\ [][Next]_vars

NextKNN == KnnGraphFn \/ KNNGraph

SpecKNN == Init /\ [][NextKNN]_vars

InitPINN == GInit /\ PInit

NextPINN ==
    \/ TrainingStep
    \/ ValidationStep
    \/ OptimizerStep
    \/ StoreLog
    \/ SaveLogsAndRelease

SpecPINN == InitPINN /\ [][NextPINN]_vars

(***************************************************************************)
(* compute_residual(samples, equation), called on a solver just            *)
(* constructed.                                                            *)
(***************************************************************************)
Equations == [arity : {2, 3}, body : {"ok", "TypeError", "ValueError"}]

Forwards == {"ok", "TypeError", "RuntimeError"}

ComputeResidual ==
    /\ op = "init"
    /\ \E equation \in Equations, fwd \in Forwards :
          LET o == compute_residual(equation, fwd, params)
          IN /\ op' = "compute_residual"
             /\ args' = [equation |-> equation, forward |-> fwd]
             /\ error' = o.error
             /\ ret' = o
    /\ UNCHANGED <<data, problem, params, logged_res_losses, logged_metric,
                   logs, batch, step_ret>>

SpecResidual == InitPINN /\ [][ComputeResidual]_vars

(***************************************************************************)
(* The properties.  What an argument is "after 3-D inputs are split" is    *)
(* stated here on the arguments as given: a list is a list, and so is a    *)
(* 3-D tensor, of as many entries as its leading dimension.                *)
(***************************************************************************)
ListAfterSplit(v) == IsList(v) \/ (IsTensor(v) /\ Len(v.shape) = 3)

SingleTensor(v) == IsTensor(v) /\ Len(v.shape) # 3

LenAfterSplit(v) == IF IsList(v) THEN Len(v.items) ELSE v.shape[1]

RECURSIVE BatchLossSum(_)
BatchLossSum(b) ==
    IF b = <<>> THEN 0 ELSE Head(b).loss + BatchLossSum(Tail(b))

\* C1: the loss training_step returns and logs as train_loss, and the loss
\* validation_step logs as val_loss, is the sum of the per-condition losses
\* of the batch, each condition counted once.
C1_StepLossIsSum ==
    /\ op = "training_step" =>
          /\ step_ret = Rat(BatchLossSum(batch), 1)
          /\ logs = <<LogEntry("train_loss", Rat(BatchLossSum(batch), 1))>>
    /\ op = "validation_step" =>
          logs = <<LogEntry("val_loss", Rat(BatchLossSum(batch), 1))>>

\* C2: a Graph construction that succeeds holds as many records as there are
\* graphs: L records when x and pos are lists of equal length L, and L
\* records that all carry the node features x when x is a single tensor and
\* pos a list of length L, whatever the form of edge_index.
C2_RecordCount ==
    (op = "Graph" /\ error = NoError) =>
        /\ (ListAfterSplit(args.x) /\ ListAfterSplit(args.pos)) =>
              Len(data) = LenAfterSplit(args.x)
        /\ (SingleTensor(args.x) /\ ListAfterSplit(args.pos)) =>
              /\ Len(data) = LenAfterSplit(args.pos)
              /\ \A i \in 1..Len(data) :
                    data[i].x = [args.x EXCEPT !.labeled = FALSE]

\* C3: when edge_attr is provided, a single tensor is carried by every
\* record and record i carries the i-th element of a provided list; nothing
\* is built.
C3_ProvidedEdgeAttr ==
    (op = "Graph" /\ error = NoError /\ args.edge_attr.kind # "none") =>
        \A i \in 1..Len(data) :
            /\ data[i].has_edge_attr
            /\ data[i].edge_attr =
                  IF IsList(args.edge_attr) THEN args.edge_attr.items[i]
                  ELSE args.edge_attr

\* C4 as stated: whenever _check_additional_params returns, every value of
\* the returned mapping is a list of length data_len.
C4_AllListsOfDataLen ==
    (op = "_check_additional_params" /\ error = NoError) =>
        \A k \in DOMAIN ret :
            IsList(ret[k]) /\ Len(ret[k].items) = args.data_len

\* C4, amended: whenever _check_additional_params returns, a 1-D tensor has
\* become a list of length data_len (its elements when it has data_len of
\* them, else copies of it), a 2-D tensor a list of data_len copies of it, a
\* 3-D tensor the list of its slices along axis 0 (as many as its leading
\* dimension, whatever data_len is), and a list or a tensor of any other
\* number of dimensions is returned as given; None yields the empty mapping.
C4_Expanded ==
    (op = "_check_additional_params" /\ error = NoError) =>
        IF args.additional_params.kind = "none" THEN ret = <<>>
        ELSE LET m == args.additional_params.map
                 n == args.data_len
             IN /\ DOMAIN ret = DOMAIN m
                /\ \A k \in DOMAIN m :
                      LET v == m[k]
                          d == IF IsTensor(v) THEN Len(v.shape) ELSE 0
                      IN IF IsTensor(v) /\ d = 1
                         THEN /\ IsList(ret[k]) /\ Len(ret[k].items) = n
                              /\ \A i \in 1..n :
                                    ret[k].items[i] =
                                       IF v.shape[1] = n
                                       THEN [v EXCEPT !.idx = <<i - 1>>,
                                                      !.shape = <<>>]
                                       ELSE v
                         ELSE IF IsTensor(v) /\ d = 2
                         THEN /\ IsList(ret[k]) /\ Len(ret[k].items) = n
                              /\ \A i \in 1..n : ret[k].items[i] = v
                         ELSE IF IsTensor(v) /\ d = 3
                         THEN /\ IsList(ret[k])
                              /\ Len(ret[k].items) = v.shape[1]
                              /\ \A i \in 1..v.shape[1] :
                                    ret[k].items[i] =
                                       [v EXCEPT !.idx = <<i - 1>>,
                                                 !.shape = Tail(v.shape)]
                         ELSE ret[k] = v

\* a 3-D tensor whose leading dimension is not data_len was accepted
C4_Witness ==
    /\ op = "_check_additional_params"
    /\ error = NoError
    /\ args.additional_params.kind = "dict"
    /\ \E k \in DOMAIN ret :
          /\ IsTensor(args.additional_params.map[k])
          /\ Len(args.additional_params.map[k].shape) = 3
          /\ IsList(ret[k])
          /\ Len(ret[k].items) # args.data_len

\* C5: for every pair of kinds (x, pos) other than (list, tensor), (tensor,
\* tensor), (tensor, list) and (list, list), Graph construction fails with a
\* type error.
C5_OtherKindsTypeError ==
    (/\ op = "Graph"
     /\ ~(ListAfterSplit(args.x) \/ IsTensor(args.x))
        \/ ~(ListAfterSplit(args.pos) \/ IsTensor(args.pos))) =>
        error \in {XPosTypeError, NotIterable}

\* C6: TemporalGraph fails with "pos and times must have the same length"
\* whenever len(pos) # len(t) after the 3-D split, whatever edge_index and r
\* are, and the base constructor is not reached.
C6_TimeLenMismatch ==
    (/\ op = "TemporalGraph"
     /\ Iterable(args.t)
     /\ LenAfterSplit(args.pos) # PyLen(args.t)) =>
        error = TimeLenMismatch /\ ~ret.base_called

\* C7: after the 3-D split, data_len is len(x) when x and pos are lists of
\* equal length, the construction fails with the length-mismatch error when
\* they are lists of different lengths, data_len is the length of the one
\* that is a list when exactly one is, and 1 when neither is.
C7_DataLen ==
    op = "Graph" =>
        IF ListAfterSplit(args.x) /\ ListAfterSplit(args.pos)
        THEN IF LenAfterSplit(args.x) = LenAfterSplit(args.pos)
             THEN /\ error # LenMismatch
                  /\ ret.stage # "input"
                  /\ ret.data_len = LenAfterSplit(args.x)
             ELSE error = LenMismatch /\ ret.stage = "input"
        ELSE /\ error # LenMismatch
             /\ ret.stage # "input"
             /\ ret.data_len =
                   IF ListAfterSplit(args.x) THEN LenAfterSplit(args.x)
                   ELSE IF ListAfterSplit(args.pos)
                   THEN LenAfterSplit(args.pos)
                   ELSE 1

\* a 3-D x of two graphs met a list of two positions: data_len is 2
C7_Witness ==
    /\ op = "Graph"
    /\ IsTensor(args.x) /\ Len(args.x.shape) = 3 /\ args.x.shape[1] = 2
    /\ IsList(args.pos) /\ Len(args.pos.items) = 2
    /\ ret.stage # "input"
    /\ ret.data_len = 2

\* C8: for N points (duplicates included) and 1 <= k < N, _knn_graph returns
\* N * k edges, k with each point as source, none a self-loop.
C8_KnnEdges ==
    (/\ op = "_knn_graph"
     /\ 1 <= args.k
     /\ args.k < Len(args.points)) =>
        /\ error = NoError
        /\ Len(ret.row) = Len(args.points) * args.k
        /\ Len(ret.col) = Len(args.points) * args.k
        /\ \A i \in 0..(Len(args.points) - 1) :
              Cardinality({e \in 1..Len(ret.row) : ret.row[e] = i}) = args.k
        /\ \A e \in 1..Len(ret.row) : ret.row[e] # ret.col[e]

\* C9: for N points and r >= 0, _radius_graph returns exactly the ordered
\* pairs (i, j) at distance <= r, each once: every (i, i) is among them and
\* (i, j) is iff (j, i) is; with r = 0 on pairwise distinct points they are
\* the N self-loops.
C9_RadiusEdges ==
    (op = "_radius_graph" /\ args.r >= 0) =>
        LET P == args.points
            N == Len(P)
            E == {<<ret.row[e], ret.col[e]>> : e \in 1..Len(ret.row)}
            Near(i, j) ==
                (P[i + 1][1] - P[j + 1][1]) * (P[i + 1][1] - P[j + 1][1])
                + (P[i + 1][2] - P[j + 1][2]) * (P[i + 1][2] - P[j + 1][2])
                <= args.r * args.r
        IN /\ Len(ret.row) = Len(ret.col)
           /\ Cardinality(E) = Len(ret.row)
           /\ E = {e \in (0..(N - 1)) \X (0..(N - 1)) : Near(e[1], e[2])}
           /\ \A i \in 0..(N - 1) : <<i, i>> \in E
           /\ \A e \in E : <<e[2], e[1]>> \in E
           /\ (args.r = 0 /\ \A i, j \in 1..N : i # j => P[i] # P[j]) =>
                 E = {<<i, i>> : i \in 0..(N - 1)}

\* three distinct points, r = 0: the three self-loops
C9_Witness ==
    /\ op = "_radius_graph"
    /\ args.r = 0
    /\ Len(args.points) = 3
    /\ \A i, j \in 1..3 : i # j => args.points[i] # args.points[j]
    /\ ret.row = <<0, 1, 2>>
    /\ ret.col = <<0, 1, 2>>

\* C10: for an inverse problem, training_step leaves every unknown parameter
\* within its range [low, high]: a value below low becomes low, a value
\* above high becomes high, a value within the range is unchanged, and a
\* training step that follows a training step changes no parameter; for a
\* problem that is not inverse training_step changes no parameter.
C10_ClampAfterTraining ==
    [][op' = "training_step" =>
          IF problem.inverse
          THEN /\ \A v \in DOMAIN params :
                     LET lo == problem.range_[v][1]
                         hi == problem.range_[v][2]
                     IN /\ lo <= params'[v] /\ params'[v] <= hi
                        /\ params[v] < lo => params'[v] = lo
                        /\ params[v] > hi => params'[v] = hi
                        /\ (lo <= params[v] /\ params[v] <= hi) =>
                              params'[v] = params[v]
               /\ op = "training_step" => params' = params
          ELSE params' = params]_vars

\* a training step of an inverse problem has left mu and nu on the bounds of
\* their ranges
C10_Witness ==
    /\ op = "training_step"
    /\ problem.inverse
    /\ params["mu"] = problem.range_["mu"][1]
    /\ params["nu"] = problem.range_["nu"][2]

\* C11: when a custom edge-attribute function is supplied, edge_attr is None
\* and build_edge_attr is true, record i carries the result of the function
\* called with that graph's own node features x[i], positions pos[i] and edge
\* index edge_index[i].
C11_CustomEdgeAttr ==
    (/\ op = "Graph"
     /\ error = NoError
     /\ args.custom_build_edge_attr.kind = "function"
     /\ args.edge_attr.kind = "none"
     /\ args.build_edge_attr) =>
        \A i \in 1..Len(data) :
            /\ data[i].has_edge_attr
            /\ data[i].edge_attr =
                  build_edge_attr_call("custom", Items(ret.x)[i],
                                       Items(ret.pos)[i],
                                       Items(ret.edge_index)[i]).val

\* C12: every store_log call stores its value, and save_logs_and_release
\* logs exactly one value, the arithmetic mean of the values stored since the
\* last release, under the "mean" name when at least one was stored, logs
\* nothing when none was, and leaves the accumulator empty either way, so
\* that no value contributes to a later mean.
C12_MeanLogged ==
    [][/\ op' = "store_log" =>
             /\ error' = NoError
             /\ logged_res_losses' =
                   Append(logged_res_losses, args'.loss_value)
       /\ op' = "save_logs_and_release" =>
             /\ logged_res_losses' = <<>>
             /\ logs' = IF logged_res_losses = <<>> THEN <<>>
                        ELSE <<LogEntry("mean_loss",
                                        Mean(logged_res_losses))>>]_vars

\* C13: compute_residual makes the second call of equation.residual (with
\* the unknown parameters) only when the first call failed because of its
\* arity; every other failure of the first call or of the forward pass
\* reaches the caller as raised, and residual is not called a second time.
C13_FallbackOnlyOnArity ==
    op = "compute_residual" =>
        /\ ret.first_error = ArityError => ret.residual_calls = 2
        /\ ret.first_error # ArityError =>
              /\ error = ret.first_error
              /\ ret.residual_calls <= 1

\* C14: Graph construction is all-or-nothing: whenever it raises an error
\* the data list holds no graph record, and when it returns data holds all
\* data_len records.
C14_AllOrNothing ==
    op = "Graph" =>
        IF error # NoError THEN data = <<>>
        ELSE Len(data) = ret.data_len

\* C15: validation_step leaves every unknown parameter and the accumulator
\* of logged residuals unchanged (it does not clamp); of the two steps only
\* training_step changes a parameter, and only by moving a value that is
\* outside its range onto the bound it passed.
C15_ValidationFrame ==
    [][/\ op' = "validation_step" =>
             /\ params' = params
             /\ logged_res_losses' = logged_res_losses
       /\ (op' \in {"training_step", "validation_step"} /\ params' # params) =>
             /\ op' = "training_step"
             /\ problem.inverse
             /\ \A v \in DOMAIN params :
                   params'[v] # params[v] =>
                      \/ params[v] < problem.range_[v][1]
                         /\ params'[v] = problem.range_[v][1]
                      \/ params[v] > problem.range_[v][2]
                         /\ params'[v] = problem.range_[v][2]]_vars

\* a validation step of an inverse problem has run on a batch and left mu
\* above its range and nu at its value
C15_Witness ==
    /\ op = "validation_step"
    /\ batch # <<>>
    /\ problem.inverse
    /\ params["mu"] > problem.range_["mu"][2]
    /\ params["nu"] = MaxParam

\* C16: the logged metric name is None or "mean" in every reachable state:
\* training_step and validation_step never change it, it changes only in a
\* save_logs_and_release that finds a non-empty accumulator, which sets it
\* to "mean", and once "mean" it stays "mean".
C16_MetricName ==
    [][/\ logged_metric \in {NoneVal, Str("mean")}
       /\ logged_metric' \in {NoneVal, Str("mean")}
       /\ op' \in {"training_step", "validation_step"} =>
             logged_metric' = logged_metric
       /\ logged_metric' # logged_metric =>
             /\ op' = "save_logs_and_release"
             /\ logged_res_losses # <<>>
             /\ logged_metric' = Str("mean")
       /\ logged_metric = Str("mean") => logged_metric' = Str("mean")]_vars

\* a training step has processed the conditions of a batch and the metric
\* name is still None
C16_Witness ==
    /\ op = "training_step"
    /\ Len(batch) = 2
    /\ logged_metric = NoneVal

=============================================================================
